---- MODULE Spec2Model ----
(***************************************************************************)
(* Model of manifolds/submanifold.py (SageManifolds 0.1): the constructor  *)
(* of Submanifold, its plot method, and the MCurve specialisation with its *)
(* _repr_.  The host classes Manifold, Chart and DiffMapping, the symbolic *)
(* ring SR and parametric_plot live outside submanifold.py; they are       *)
(* modelled by what the docstrings of submanifold.py show of them.         *)
(***************************************************************************)
EXTENDS Integers, Sequences, FiniteSets, TLC

VARIABLES amb, ambPre, self, args, exc, description, plotArgs, plotOut, op

vars == <<amb, ambPre, self, args, exc, description, plotArgs, plotOut, op>>

(* ------------------------------ bounds -------------------------------- *)
MaxDim == 3          \* manifold dimensions range over 1..MaxDim
MaxLen == 3          \* embedding-function lists have length 0..MaxLen

(* --------------------------- value universe --------------------------- *)
None == "None"                       \* Python's None
NotAManifold == "NotAManifold"       \* an ambient_manifold argument that is no Manifold
AmbRef == "amb"                      \* a reference to the ambient Manifold object

AmbNames == {"R2", "R3", "M"}        \* names given to the ambient manifold
AmbCharts == {"cart", "spher"}       \* chart names registered on the ambient manifold
ChartNames == {"t", "uv"}            \* chart_name / param_name arguments
SubNames == {None, "S2"}             \* name argument (None: left unset)
Dims == 1..MaxDim

\* R2 and R3 have their dimension; a manifold of another name has any
AmbDim(nm, n) == IF nm = "R2" THEN 2 ELSE IF nm = "R3" THEN 3 ELSE n

\* embedding functions: a string to be parsed, or a ready symbolic expression
Funcs == {[kind |-> "str", e |-> "f"], [kind |-> "expr", e |-> "g"]}

FuncLists == UNION {[1..k -> Funcs] : k \in 0..MaxLen}

\* lower ends of the numeric (min, max) pairs handed to plot
RangeMins == {0, 1}

(* ------------------------------ host ---------------------------------- *)
\* SR(x): conversion to a symbolic expression; a string is parsed, an
\* expression is returned as it is.
SR(x) == [kind |-> "expr", e |-> x.e]

NoEmbedding == [set |-> FALSE, chart1 |-> None, chart2 |-> None, functions |-> <<>>]

\* Manifold.__init__(self, n, name, latex_name, start_index): a manifold of
\* dimension n with an empty atlas and no default chart.
ManifoldInit(n, name, cls) ==
    [cls |-> cls, dim |-> n, name |-> name, atlas |-> {}, def_chart |-> None,
     ambient_manifold |-> None, embedding |-> NoEmbedding]

\* Chart(manifold, coordinates, name): registers the chart in the manifold's
\* atlas; the first chart becomes the default chart.
ChartInit(m, chart_name) ==
    [m EXCEPT !.atlas = @ \cup {chart_name},
              !.def_chart = IF @ = None THEN chart_name ELSE @]

\* DiffMapping(self, ambient, expressions, chart1, chart2): coord_expression
\* is {(chart1, chart2): functions}.
DiffMapping(expressions, chart1, chart2) ==
    [set |-> TRUE, chart1 |-> chart1, chart2 |-> chart2, functions |-> expressions]

\* str(manifold): "<n>-dimensional manifold '<name>'"
ManifoldRepr(m) == <<ToString(m.dim), "-dimensional manifold", m.name>>

isinstance_Manifold(a) == a = AmbRef

(* ------------------------ Submanifold.__init__ ------------------------ *)
\* variant: the functions are handed on without the conversion by SR
embedding_expressions_unconverted(embedding_functions, n_amb) ==
    [i \in 1..n_amb |-> embedding_functions[i]]

embedding_expressions(embedding_functions, n_amb) ==
    [i \in 1..n_amb |-> SR(embedding_functions[i])]

\* variant: the isinstance check comes after the default-chart read
Submanifold_init_lateTypeCheck(M, cls, n, chart_name, ambient_manifold, embedding_functions, name, ambient_chart) ==
    LET s0 == ManifoldInit(n, name, cls)
        s1 == ChartInit(s0, chart_name)
        s2 == [s1 EXCEPT !.ambient_manifold = ambient_manifold]
        ac == IF ambient_chart = None THEN M.def_chart ELSE ambient_chart
        n_amb == M.dim
    IN  IF ambient_chart = None
             /\ (~isinstance_Manifold(ambient_manifold) \/ M.def_chart = None)
          THEN [exc |-> "AttributeError", self |-> s1]
        ELSE IF ~isinstance_Manifold(ambient_manifold)
          THEN [exc |-> "TypeError", self |-> s1]
        ELSE IF Len(embedding_functions) # n_amb
          THEN [exc |-> "ValueError", self |-> s2]
        ELSE [exc |-> None,
              self |-> [s2 EXCEPT !.embedding =
                          DiffMapping(embedding_expressions(embedding_functions, n_amb),
                                      chart_name, ac)]]

\* variant: self.ambient_manifold is assigned before the isinstance check
Submanifold_init_earlyAttribute(M, cls, n, chart_name, ambient_manifold, embedding_functions, name, ambient_chart) ==
    LET s0 == ManifoldInit(n, name, cls)
        s1 == ChartInit(s0, chart_name)
        s2 == [s1 EXCEPT !.ambient_manifold = ambient_manifold]
        ac == IF ambient_chart = None THEN M.def_chart ELSE ambient_chart
        n_amb == M.dim
    IN  IF ~isinstance_Manifold(ambient_manifold)
          THEN [exc |-> "TypeError", self |-> s2]
        ELSE IF ambient_chart = None /\ M.def_chart = None
          THEN [exc |-> "AttributeError", self |-> s2]
        ELSE IF Len(embedding_functions) # n_amb
          THEN [exc |-> "ValueError", self |-> s2]
        ELSE [exc |-> None,
              self |-> [s2 EXCEPT !.embedding =
                          DiffMapping(embedding_expressions(embedding_functions, n_amb),
                                      chart_name, ac)]]

Submanifold_init(M, cls, n, chart_name, ambient_manifold, embedding_functions, name, ambient_chart) ==
    LET s0 == ManifoldInit(n, name, cls)
        s1 == ChartInit(s0, chart_name)
        s2 == [s1 EXCEPT !.ambient_manifold = ambient_manifold]
        ac == IF ambient_chart = None THEN M.def_chart ELSE ambient_chart
        n_amb == M.dim
    IN  IF ~isinstance_Manifold(ambient_manifold)
          THEN [exc |-> "TypeError", self |-> s1]
        ELSE IF ambient_chart = None /\ M.def_chart = None
          THEN [exc |-> "AttributeError", self |-> s2]
        ELSE IF Len(embedding_functions) # n_amb
          THEN [exc |-> "ValueError", self |-> s2]
        ELSE [exc |-> None,
              self |-> [s2 EXCEPT !.embedding =
                          DiffMapping(embedding_expressions(embedding_functions, n_amb),
                                      chart_name, ac)]]

\* MCurve.__init__: Submanifold.__init__ with n = 1 and start_index left at 0
MCurve_init(M, param_name, ambient_manifold, embedding_functions, name, ambient_chart) ==
    Submanifold_init(M, "MCurve", 1, param_name, ambient_manifold,
                     embedding_functions, name, ambient_chart)

\* variant: the name is formatted without the test for None
MCurve_repr_alwaysName(s, M) ==
    <<"curve">> \o <<"'" \o s.name \o "'">> \o <<" on ">> \o ManifoldRepr(M)

\* MCurve._repr_
MCurve_repr(s, M) ==
    <<"curve">>
      \o (IF s.name # None THEN <<"'" \o s.name \o "'">> ELSE <<>>)
      \o <<" on ">> \o ManifoldRepr(M)

(* --------------------------- Submanifold.plot ------------------------- *)
NoPlot == [outcome |-> "none", exc |-> None, msg |-> None,
           functions |-> <<>>, ranges |-> <<>>]

PlotError(e, m) == [outcome |-> "error", exc |-> e, msg |-> m,
                    functions |-> <<>>, ranges |-> <<>>]

\* parametric_plot(functions, range, ...): the host routine's call, recorded
parametric_plot(functions, ranges) ==
    [outcome |-> "graph", exc |-> None, msg |-> None,
     functions |-> functions, ranges |-> ranges]

\* the two delegating branches of plot: one parameter range (chart.xx[0])
\* for dimension 1, two (chart.xx[0], chart.xx[1]) for dimension 2
plot_delegate(s, coord_ranges) ==
    IF s.dim = 1
      THEN parametric_plot(s.embedding.functions,
                           <<<<0, coord_ranges[1][1], coord_ranges[1][2]>>>>)
      ELSE parametric_plot(s.embedding.functions,
                           <<<<0, coord_ranges[1][1], coord_ranges[1][2]>>,
                             <<1, coord_ranges[2][1], coord_ranges[2][2]>>>>)

\* variant: a missing chart 'cart' raises the same error as an unsupported name
plot_cartNotImplemented(s, M, coord_ranges, chartname0) ==
    LET chartname == IF chartname0 = None THEN s.def_chart ELSE chartname0
        a == M.name
    IN  IF (a = "R3" \/ a = "R2") /\ "cart" \in M.atlas
          THEN IF ~(s.embedding.chart1 = chartname /\ s.embedding.chart2 = "cart")
                 THEN PlotError("KeyError", "coord_expression")
               ELSE IF chartname \notin s.atlas
                 THEN PlotError("KeyError", "atlas")
               ELSE IF s.dim = 1 \/ s.dim = 2
                 THEN plot_delegate(s, coord_ranges)
               ELSE PlotError("ValueError", "dim")
          ELSE PlotError("NotImplementedError", "ambient")

\* variant: the dimension is checked before the ambient manifold
plot_dimensionFirst(s, M, coord_ranges, chartname0) ==
    LET chartname == IF chartname0 = None THEN s.def_chart ELSE chartname0
        a == M.name
    IN  IF s.dim > 2
          THEN PlotError("ValueError", "dim")
        ELSE IF a = "R3" \/ a = "R2"
          THEN IF "cart" \notin M.atlas
                 THEN PlotError("ValueError", "cart")
               ELSE IF ~(s.embedding.chart1 = chartname /\ s.embedding.chart2 = "cart")
                 THEN PlotError("KeyError", "coord_expression")
               ELSE IF chartname \notin s.atlas
                 THEN PlotError("KeyError", "atlas")
               ELSE plot_delegate(s, coord_ranges)
          ELSE PlotError("NotImplementedError", "ambient")

\* coord_ranges is a list of (min, max) pairs, one per coordinate; for a
\* 1-dimensional submanifold the caller passes the pair itself.
plot(s, M, coord_ranges, chartname0) ==
    LET chartname == IF chartname0 = None THEN s.def_chart ELSE chartname0
        a == M.name
    IN  IF a = "R3" \/ a = "R2"
          THEN IF "cart" \notin M.atlas
                 THEN PlotError("ValueError", "cart")
               ELSE IF ~(s.embedding.chart1 = chartname /\ s.embedding.chart2 = "cart")
                 THEN PlotError("KeyError", "coord_expression")
               ELSE IF chartname \notin s.atlas
                 THEN PlotError("KeyError", "atlas")
               ELSE IF s.dim = 1 \/ s.dim = 2
                 THEN plot_delegate(s, coord_ranges)
               ELSE PlotError("ValueError", "dim")
          ELSE PlotError("NotImplementedError", "ambient")

(* ------------------------------ state --------------------------------- *)
NoArgs == [cls |-> None, n |-> 0, chart_name |-> None, ambient_manifold |-> None,
           embedding_functions |-> <<>>, name |-> None, ambient_chart |-> None]

NoPlotArgs == [coord_ranges |-> <<>>, chartname |-> None]

Blank == ManifoldInit(0, None, None)

\* the ambient manifold has just been created: Manifold(n, name), no chart yet
Init ==
    /\ amb \in {ManifoldInit(AmbDim(nm, n), nm, "Manifold") : n \in Dims, nm \in AmbNames}
    /\ ambPre = amb
    /\ self = Blank
    /\ args = NoArgs
    /\ exc = "NotCalled"
    /\ description = <<>>
    /\ plotArgs = NoPlotArgs
    /\ plotOut = NoPlot
    /\ op = "init"

\* Chart(amb, ..., c): a chart is defined on the ambient manifold, before or
\* after the submanifold is built
AmbientChart(c) ==
    /\ c \notin amb.atlas
    /\ amb' = ChartInit(amb, c)
    /\ ambPre' = amb
    /\ op' = "chart"
    /\ UNCHANGED <<self, args, exc, description, plotArgs, plotOut>>

\* the constructor's outcome: the object as it stands when the constructor
\* returns or raises, and the exception raised (None: it returned)
Constructed(r, a) ==
    /\ self' = r.self
    /\ exc' = r.exc
    /\ args' = a
    /\ ambPre' = amb
    /\ description' = <<>>
    /\ plotArgs' = NoPlotArgs
    /\ plotOut' = NoPlot
    /\ op' = "construct"
    /\ UNCHANGED amb

\* s = Submanifold(n, coord_symbols, chart_name, ambient_manifold, embedding_functions, ...)
NewSubmanifold(n, chart_name, ambient_manifold, embedding_functions, name, ambient_chart) ==
    Constructed(Submanifold_init(amb, "Submanifold", n, chart_name, ambient_manifold,
                                 embedding_functions, name, ambient_chart),
                [cls |-> "Submanifold", n |-> n, chart_name |-> chart_name,
                 ambient_manifold |-> ambient_manifold,
                 embedding_functions |-> embedding_functions,
                 name |-> name, ambient_chart |-> ambient_chart])

\* h = MCurve(param_symbols, param_name, ambient_manifold, embedding_functions, ...)
NewMCurve(param_name, ambient_manifold, embedding_functions, name, ambient_chart) ==
    Constructed(MCurve_init(amb, param_name, ambient_manifold,
                            embedding_functions, name, ambient_chart),
                [cls |-> "MCurve", n |-> 1, chart_name |-> param_name,
                 ambient_manifold |-> ambient_manifold,
                 embedding_functions |-> embedding_functions,
                 name |-> name, ambient_chart |-> ambient_chart])

\* the constructor returned an object (it did not raise)
Returned == exc = None

\* str(h) for a curve h
Repr ==
    /\ Returned
    /\ self.cls = "MCurve"
    /\ description' = MCurve_repr(self, amb)
    /\ ambPre' = amb
    /\ op' = "repr"
    /\ UNCHANGED <<amb, self, args, exc, plotArgs, plotOut>>

\* variant: plot keeps the chart it was called with as the default chart
PlotCall_keepsChart(coord_ranges, chartname) ==
    /\ Returned
    /\ plotOut' = plot(self, amb, coord_ranges, chartname)
    /\ plotArgs' = [coord_ranges |-> coord_ranges, chartname |-> chartname]
    /\ self' = [self EXCEPT !.def_chart = IF chartname = None THEN @ ELSE chartname]
    /\ ambPre' = amb
    /\ op' = "plot"
    /\ UNCHANGED <<amb, args, exc, description>>

\* s.plot(coord_ranges, chartname)
PlotCall(coord_ranges, chartname) ==
    /\ Returned
    /\ plotOut' = plot(self, amb, coord_ranges, chartname)
    /\ plotArgs' = [coord_ranges |-> coord_ranges, chartname |-> chartname]
    /\ ambPre' = amb
    /\ op' = "plot"
    /\ UNCHANGED <<amb, self, args, exc, description>>

AmbientArgs == {AmbRef, NotAManifold}
AmbientChartArgs == {None} \cup AmbCharts
PlotChartArgs == {None} \cup ChartNames

\* per-coordinate ranges for a submanifold of dimension d (none are read for d > 2)
RangeLists(d) ==
    IF d <= 2 THEN {[i \in 1..d |-> <<lo, lo + i>>] : lo \in RangeMins} ELSE {<<>>}

DoAmbientChart == \E c \in AmbCharts : AmbientChart(c)

\* a behaviour follows one constructor call and the object it builds
DoNewSubmanifold ==
    /\ exc = "NotCalled"
    /\ \E n \in Dims, c \in ChartNames, a \in AmbientArgs, fs \in FuncLists,
          nm \in SubNames, ac \in AmbientChartArgs :
           NewSubmanifold(n, c, a, fs, nm, ac)

DoNewMCurve ==
    /\ exc = "NotCalled"
    /\ \E c \in ChartNames, a \in AmbientArgs, fs \in FuncLists,
          nm \in SubNames, ac \in AmbientChartArgs :
           NewMCurve(c, a, fs, nm, ac)

DoPlot ==
    \E cn \in PlotChartArgs : \E rs \in RangeLists(self.dim) : PlotCall(rs, cn)

Next == DoAmbientChart \/ DoNewSubmanifold \/ DoNewMCurve \/ Repr \/ DoPlot

Spec == Init /\ [][Next]_vars

(* ----------------------------- properties ----------------------------- *)
Called == exc # "NotCalled"              \* the constructor has run
Plotted == op = "plot"                   \* plot has just run: plotOut is its outcome
Failed == exc \in {"TypeError", "ValueError", "AttributeError"}

\* the chart plot works in: chartname, or the submanifold's default chart
PlotChart == IF plotArgs.chartname = None THEN self.def_chart ELSE plotArgs.chartname

\* the arrival chart the constructor was asked for
ArrivalChart == IF args.ambient_chart = None THEN amb.def_chart ELSE args.ambient_chart

SupportedName == amb.name \in {"R2", "R3"}
HasCart == "cart" \in amb.atlas
HostCalled == plotOut.outcome = "graph"
AmbientError == plotOut.outcome = "error" /\ plotOut.exc = "NotImplementedError"
CartError == plotOut.outcome = "error" /\ plotOut.exc = "ValueError" /\ plotOut.msg = "cart"
DimensionError == plotOut.outcome = "error" /\ plotOut.exc = "ValueError" /\ plotOut.msg = "dim"

\* C1: whenever the ambient argument is a manifold of dimension n and the
\* embedding-function list has a length other than n, the constructor fails
\* with a value error and returns no submanifold.
C1_ValueErrorOnCount ==
    (Called /\ args.ambient_manifold = AmbRef
            /\ Len(args.embedding_functions) # amb.dim)
      => exc = "ValueError"

\* C2: a constructor call whose ambient_manifold is not a Manifold fails
\* with a type error whatever the other arguments are; no value error and
\* no failure of the default-chart read comes first.
C2_TypeErrorFirst ==
    (Called /\ args.ambient_manifold = NotAManifold) => exc = "TypeError"

\* C2 witness: a non-manifold ambient together with a function count that
\* differs from the ambient dimension and an unspecified ambient chart on a
\* chartless ambient manifold.
C2_Witness ==
    /\ exc = "TypeError"
    /\ args.ambient_manifold = NotAManifold
    /\ args.ambient_chart = None /\ amb.def_chart = None
    /\ Len(args.embedding_functions) # amb.dim

\* C3: after a successful construction the embedding holds exactly n
\* functions (n the ambient dimension), the i-th being the symbolic
\* conversion of the i-th supplied function, under (chart_name, ambient_chart).
C3_EmbeddingMatches ==
    (Called /\ exc = None) =>
        /\ self.embedding.set
        /\ Len(self.embedding.functions) = amb.dim
        /\ \A i \in 1..amb.dim :
              /\ self.embedding.functions[i].kind = "expr"
              /\ self.embedding.functions[i].e = args.embedding_functions[i].e
        /\ self.embedding.chart1 = args.chart_name
        /\ self.embedding.chart2 = ArrivalChart

\* C3 witness: a 3-function embedding mixing a string and an expression
C3_Witness ==
    /\ exc = None /\ amb.dim = 3
    /\ args.embedding_functions[1].kind = "str"
    /\ args.embedding_functions[2].kind = "expr"
    /\ args.embedding_functions[3].kind = "str"
    /\ args.ambient_chart = "spher"

\* C4: every constructed curve has dimension 1; its description starts
\* with "curve", ends with " on " and the ambient manifold's description,
\* and has the quoted name in between exactly when a name was given.
C4_CurveDescription ==
    (exc = None /\ self.cls = "MCurve") =>
        /\ self.dim = 1
        /\ description # <<>> =>
              LET k == Len(description)
                  r == ManifoldRepr(amb)
              IN  /\ description[1] = "curve"
                  /\ k >= 2 + Len(r)
                  /\ SubSeq(description, k - Len(r), k) = <<" on ">> \o r
                  /\ (self.name = None) <=> (k = 2 + Len(r))
                  /\ (self.name # None) =>
                        /\ k = 3 + Len(r)
                        /\ description[2] = "'" \o self.name \o "'"

\* C4 witness: the description of an unnamed curve has been produced
C4_Witness ==
    /\ exc = None /\ self.cls = "MCurve" /\ self.name = None
    /\ op = "repr" /\ description # <<>>

\* C5 as stated: plotting with an ambient manifold not named R2/R3, or one
\* without a chart "cart", fails with the one unsupported-ambient error and
\* does not call the host plotting routine.
C5_OneAmbientError ==
    (Plotted /\ (~SupportedName \/ ~HasCart)) => AmbientError

\* C5 amended: an ambient manifold not named R2/R3 gives the
\* NotImplementedError; one named R2/R3 without a chart "cart" gives a
\* ValueError; in neither case is the host plotting routine called.
C5_TwoAmbientErrors ==
    /\ (Plotted /\ ~SupportedName) => AmbientError
    /\ (Plotted /\ SupportedName /\ ~HasCart) => CartError
    /\ (Plotted /\ (~SupportedName \/ ~HasCart)) => ~HostCalled

\* C5 witness: a plot on R3 without Cartesian chart
C5_Witness == Plotted /\ amb.name = "R3" /\ ~HasCart /\ CartError

\* the embedding has a coordinate expression for (chartname, 'cart')
HasCartExpression ==
    self.embedding.chart1 = PlotChart /\ self.embedding.chart2 = "cart"

\* C6 as stated: plotting a submanifold of dimension greater than 2 fails
\* with the unsupported-dimension error whatever the ambient manifold, the
\* charts and chartname are.
C6_AlwaysDimensionError ==
    (Plotted /\ self.dim > 2) => DimensionError

\* C6 amended: plotting a submanifold of dimension greater than 2 always
\* fails and never calls the host routine; the failure is the
\* unsupported-dimension error exactly when the ambient manifold is named
\* R2/R3, has a chart "cart" and the embedding has an expression for
\* (chartname, "cart"); otherwise the earlier step's error is raised.
C6_DimensionErrorLast ==
    (Plotted /\ self.dim > 2) =>
        /\ plotOut.outcome = "error"
        /\ ~HostCalled
        /\ DimensionError <=> (SupportedName /\ HasCart /\ HasCartExpression)
        /\ ~SupportedName => AmbientError
        /\ (SupportedName /\ ~HasCart) => CartError
        /\ (SupportedName /\ HasCart /\ ~HasCartExpression) => plotOut.exc = "KeyError"

\* C6 witness: a 3-dimensional submanifold of R3 reaches the dimension check
C6_Witness == Plotted /\ self.dim = 3 /\ amb.name = "R3" /\ DimensionError

\* C7 as stated: when the constructor raises a type or value error, no
\* chart is registered on the new object, neither ambient_manifold nor
\* embedding is set on it, and the ambient manifold is unchanged.
C7_NothingDone ==
    (op = "construct" /\ exc \in {"TypeError", "ValueError"}) =>
        /\ self.atlas = {} /\ self.def_chart = None
        /\ self.ambient_manifold = None
        /\ ~self.embedding.set
        /\ amb = ambPre

\* C7 amended: when the constructor raises a type or value error the
\* embedding is not set and the ambient manifold is unchanged, but the new
\* (discarded) object already carries its chart chart_name as default chart,
\* and on a value error also its ambient_manifold attribute.
C7_PartialObject ==
    (op = "construct" /\ exc \in {"TypeError", "ValueError"}) =>
        /\ self.atlas = {args.chart_name} /\ self.def_chart = args.chart_name
        /\ self.dim = args.n
        /\ ~self.embedding.set
        /\ amb = ambPre
        /\ (exc = "TypeError") => self.ambient_manifold = None
        /\ (exc = "ValueError") => self.ambient_manifold = AmbRef

\* C7 witness: a value error raised after the chart was registered
C7_Witness ==
    /\ exc = "ValueError" /\ op = "construct"
    /\ self.atlas # {} /\ self.ambient_manifold = AmbRef

\* C8: every constructor call with a Manifold ambient and a function list
\* as long as the ambient dimension succeeds, also with ambient_chart
\* unspecified on a chartless ambient manifold, and the arrival chart is
\* then the ambient manifold's default chart.
C8_OnlyTwoFailures ==
    (Called /\ args.ambient_manifold = AmbRef
            /\ Len(args.embedding_functions) = amb.dim) =>
        /\ exc = None
        /\ self.embedding.chart2 = ArrivalChart

\* C9: plot either fails with an unsupported-ambient error, fails with the
\* unsupported-dimension error, or delegates to the host routine; with an
\* ambient manifold named R2/R3 that has a chart "cart" and a dimension of
\* at most 2 it delegates, with as many parameter ranges as the dimension.
C9_ThreeOutcomes ==
    Plotted =>
        /\ AmbientError \/ CartError \/ DimensionError \/ HostCalled
        /\ (SupportedName /\ HasCart /\ self.dim <= 2) =>
              /\ HostCalled
              /\ Len(plotOut.ranges) = self.dim

\* C10: a plot call leaves the submanifold (dimension, atlas, default
\* chart, ambient_manifold, embedding), the ambient manifold and the
\* constructor's outcome unchanged, and its outcome is a function of the
\* call's arguments and that unchanged state.
C10_PlotFrame ==
    [][op' = "plot" =>
         /\ self' = self /\ amb' = amb /\ exc' = exc /\ args' = args
         /\ plotOut' = plot(self, amb, plotArgs'.coord_ranges, plotArgs'.chartname)]_vars

\* C10 witness: a plot call that delegated to the host routine
C10_Witness == op = "plot" /\ HostCalled /\ self.dim = 2

TypeOK ==
    /\ amb.dim \in Dims /\ amb.atlas \subseteq AmbCharts
    /\ exc \in {"NotCalled", None, "TypeError", "ValueError", "AttributeError"}
    /\ op \in {"init", "chart", "construct", "repr", "plot"}
    /\ Failed => ~Plotted
====
